---- MODULE Spec2Model ----
(***************************************************************************)
(* The document ingestion pipeline of src/retriever/vector_store.py:       *)
(* AsyncVectorStore.add_documents, the producer/consumer pair it starts    *)
(* over a bounded asyncio.Queue, and the tracker calls that wrap it.       *)
(*                                                                         *)
(* A document is represented by the number of chunks the text splitter     *)
(* returns for it; a chunk is the pair <<document position, chunk          *)
(* position>>.  The splitter, the tracker (MLflow) and the Chroma index    *)
(* are collaborators: each call to one of them either succeeds or raises.  *)
(* A Chroma insert that raises is taken to have inserted nothing.          *)
(***************************************************************************)
EXTENDS Integers, Sequences, FiniteSets, TLC

\* ---------------------------------------------------------------- bounds
MaxDocs == 2
MaxChunks == 2
MaxBatchSize == 3

\* asyncio.Queue(maxsize=100)
QueueMaxSize == 100

\* one document long enough to fill the queue
LargeDoc == QueueMaxSize + 1

\* "top_k": 5 in VECTOR_STORE_CONFIG
ConfigTopK == 5

\* "batch_size": 64 in VECTOR_STORE_CONFIG
ConfigBatchSize == 64

\* the end-of-stream sentinel (None); no chunk has document position 0
None == <<0, 0>>

\* a record already in the collection before the call
Old == <<0, 1>>

VARIABLES
    documents,      \* the argument of add_documents: chunk count per document
    batch_size,     \* self.config.get("batch_size")
    index,          \* the records of the Chroma collection, in insertion order
    indexBefore,    \* the collection when add_documents was called
    client,         \* tracker.client is not None
    current_run,    \* tracker.current_run is not None
    addPc,          \* position of add_documents
    addOutcome,     \* "pending", "returned" or "raised"
    addError,       \* the exception add_documents is propagating
    streamOutcome,  \* outcome of add_documents_stream
    streamError,    \* the exception add_documents_stream raised
    gatherExc,      \* the exception set on the gather future
    chunk_queue,    \* asyncio.Queue contents, oldest first
    prodPc,         \* position of the producer task
    docIdx,         \* documents the producer has taken from the list
    chunks,         \* chunks of the current document not yet enqueued
    consPc,         \* position of the consumer task
    batch,          \* the consumer's local batch
    executor,       \* state of the run_in_executor job of _add_batch_async
    dispatched,     \* every batch handed to _add_batch_async, in order
    config_objects,         \* the config dicts of the process: object -> value
    vector_store_instance,  \* the global _vector_store_instance
    vector_store_config,    \* the global _vector_store_config (a reference)
    instances,              \* every AsyncVectorStore constructed, in order
    get_calls,              \* every get_vector_store call made, in order
    config_reads,           \* every self.config.get(key) made, in order
    searchPc,       \* position of search
    top_k,          \* the top_k argument of search
    filter_dict,    \* the filter_dict argument of search
    index_calls,    \* every similarity_search_with_score call, in order
    results,        \* the local `results` of search
    searchOutcome,  \* "pending", "returned" or "raised"
    searchResult,   \* the list search returned
    searchError,    \* the exception search is propagating
    chunk_size,     \* config["recursive_character_text_splitter"]["chunk_size"]
    chunk_overlap,  \* config["recursive_character_text_splitter"]["chunk_overlap"]
    calls,          \* the add_documents_stream calls of one pipeline: call -> state
    queues,          \* the asyncio.Queue objects those calls created
    advPc,              \* position of generate_advice
    tracker_set,        \* whether FinancialAdvisor.__init__ set self.tracker
    holdings,           \* number of holdings get_user_holdings returned
    stock,              \* number of stock symbols the loop has searched
    relevant_documents, \* the list of get_user_portfolio_context
    stock_results,      \* the search_results of every per-stock search
    general_results,    \* the search_results of the generic queries
    ctx_error,          \* the exception get_user_portfolio_context caught
    context,            \* what get_user_portfolio_context returned
    gen_error,          \* the exception an except clause of the request caught
    advice,             \* the advice text of the AdviceResponse
    advOutcome          \* "pending", "returned" or "raised"

vars == <<documents, batch_size, index, indexBefore, client, current_run,
          addPc, addOutcome, addError, streamOutcome, streamError, gatherExc,
          chunk_queue, prodPc, docIdx, chunks, consPc, batch, executor,
          dispatched>>

trackerVars == <<client, current_run>>
callVars == <<addPc, addOutcome, addError, streamOutcome, streamError>>
producerVars == <<prodPc, docIdx, chunks>>
consumerVars == <<consPc, batch, executor, dispatched>>
inputVars == <<documents, batch_size, indexBefore>>

registryVars == <<config_objects, vector_store_instance, vector_store_config,
                  instances, get_calls, config_reads>>

\* the state of the components a pipeline step does not touch
searchVars == <<searchPc, top_k, filter_dict, index_calls, results,
                searchOutcome, searchResult, searchError>>

splitterVars == <<chunk_size, chunk_overlap>>

concurrentVars == <<calls, queues>>

advisorVars == <<advPc, tracker_set, holdings, stock, relevant_documents,
                 stock_results, general_results, ctx_error, context,
                 gen_error, advice, advOutcome>>

otherVars == <<registryVars, searchVars, splitterVars, concurrentVars,
               advisorVars>>

allVars == <<vars, otherVars>>

\* ---------------------------------------------------------------- helpers

\* the chunks the splitter returns for the document at position d
ChunksOf(d) == [i \in 1..documents[d] |-> <<d, i>>]

RECURSIVE ChunksUpTo(_)
\* the chunks of the first n documents, in document then chunk order
ChunksUpTo(n) == IF n = 0 THEN <<>> ELSE ChunksUpTo(n - 1) \o ChunksOf(n)

AllChunks == ChunksUpTo(Len(documents))

RECURSIVE Flatten(_)
\* the concatenation of the sequences of bs, in order
Flatten(bs) ==
    IF bs = <<>> THEN <<>>
    ELSE IF Len(bs) = 1 THEN bs[1]
    ELSE LET h == Len(bs) \div 2
         IN  Flatten(SubSeq(bs, 1, h)) \o Flatten(SubSeq(bs, h + 1, Len(bs)))

IsPrefix(s, t) == Len(s) <= Len(t) /\ SubSeq(t, 1, Len(s)) = s

IsSuffix(s, t) ==
    Len(s) <= Len(t) /\ SubSeq(t, Len(t) - Len(s) + 1, Len(t)) = s

\* lists of up to MaxDocs documents of up to MaxChunks chunks each
SmallLists == UNION {[1..n -> 0..MaxChunks] : n \in 0..MaxDocs}

\* the document lists add_documents is called with: the short lists, and
\* one document whose chunks do not fit in the queue
DocumentLists == SmallLists \cup {<<LargeDoc>>}

BatchSizes == 1..MaxBatchSize

\* Task.done(): the task returned or raised
TaskFinished(pc) == pc \in {"done", "failed"}

\* _vector_store_instance = None; _vector_store_config = None
NoInstance == 0

\* the registry of a process that has made no get_vector_store call and
\* holds one config dict
RegistryIdle ==
    /\ config_objects = <<[persist_directory |-> "chroma_db",
                            batch_size |-> ConfigBatchSize,
                            top_k |-> ConfigTopK]>>
    /\ vector_store_instance = NoInstance
    /\ vector_store_config = NoInstance
    /\ instances = <<>>
    /\ get_calls = <<>>
    /\ config_reads = <<>>

\* top_k=None, filter_dict=None
NoTopK == 0
NoFilter == 0

\* a pipeline on which no search call is made
SearchIdle ==
    /\ searchPc = "idle"
    /\ top_k = NoTopK
    /\ filter_dict = NoFilter
    /\ index_calls = <<>>
    /\ results = <<>>
    /\ searchOutcome = "pending"
    /\ searchResult = <<>>
    /\ searchError = "none"

\* the splitter settings of RECURSIVE_CHARACTER_TEXT_SPLITTER_CONFIG, in
\* hundreds of characters
SplitterDefault ==
    /\ chunk_size = 10
    /\ chunk_overlap = 2

\* no concurrent add_documents_stream calls are followed
ConcurrentIdle ==
    /\ calls = <<>>
    /\ queues = <<>>

\* get_user_portfolio_context has not returned
NoContext == [holdings |-> 0, documents |-> <<0>>]

\* no generate_advice request is made
AdvisorIdle ==
    /\ advPc = "idle"
    /\ tracker_set = FALSE
    /\ holdings = 0
    /\ stock = 0
    /\ relevant_documents = <<>>
    /\ stock_results = <<>>
    /\ general_results = <<>>
    /\ ctx_error = "none"
    /\ context = NoContext
    /\ gen_error = "none"
    /\ advice = "none"
    /\ advOutcome = "pending"

\* ---------------------------------------------------------------- Init
\* After AsyncVectorStore(config): the collection is empty or holds earlier
\* records; the tracker has a client or not, and _log_configs may have left
\* a run open (its end_run is skipped when a logging call raises).
Init ==
    /\ documents \in DocumentLists
    /\ batch_size \in BatchSizes
    /\ index \in {<<>>, <<Old>>}
    /\ indexBefore = index
    /\ client \in BOOLEAN
    /\ current_run \in (IF client THEN BOOLEAN ELSE {FALSE})
    /\ addPc = "idle"
    /\ addOutcome = "pending"
    /\ addError = "none"
    /\ streamOutcome = "pending"
    /\ streamError = "none"
    /\ gatherExc = "none"
    /\ chunk_queue = <<>>
    /\ prodPc = "unstarted"
    /\ docIdx = 0
    /\ chunks = <<>>
    /\ consPc = "unstarted"
    /\ batch = <<>>
    /\ executor = "idle"
    /\ dispatched = <<>>
    /\ RegistryIdle
    /\ SearchIdle
    /\ SplitterDefault
    /\ ConcurrentIdle
    /\ AdvisorIdle

\* ------------------------------------------------- conditions of the code

\* variant: an unbounded queue (maxsize=0)
QueueNeverFull(q) == FALSE

\* asyncio.Queue(maxsize=100).full(): put suspends while this holds
QueueFull(q) == Len(q) >= QueueMaxSize

\* variant: if len(batch) > batch_size
BatchFullOffByOne(b) == Len(b) > batch_size

\* if len(batch) >= batch_size
BatchFull(b) == Len(b) >= batch_size

\* variant: no flush after the loop
TrailingBatchDropped(b) == FALSE

\* variant: an unguarded flush after the loop
TrailingBatchAlways(b) == TRUE

\* if batch: (after the loop)
TrailingBatch(b) == b # <<>>

\* variant: batch.insert(0, chunk)
BatchPrepend(b, chunk) == <<chunk>> \o b

\* batch.append(chunk)
BatchAppend(b, chunk) == Append(b, chunk)

\* variant: the batch is not reset after a flush
BatchKept(b) == b

\* batch = [] (after a flush in the loop)
BatchAfterFlush(b) == <<>>

\* chunk = await chunk_queue.get(): the oldest item
QueueGet(q) == Head(q)

\* variant: only the producer task is awaited
GatherProducerOnly == TaskFinished(prodPc)

\* gather(producer_task, consumer_task): every task has finished
GatherDone == TaskFinished(prodPc) /\ TaskFinished(consPc)

\* variant: gather(..., return_exceptions=True)
GatherSwallows == FALSE

\* gather (return_exceptions=False) raises the first exception a task raised
GatherRaises == gatherExc # "none"

\* a task that raises sets the gather future's exception unless it is set
FirstException(e) == IF gatherExc = "none" THEN e ELSE gatherExc

\* ------------------------------------------------- add_documents

\* tracker.start_run(run_name="document-processing")
start_run ==
    /\ addPc = "idle"
    /\ \/ /\ ~client
          /\ addPc' = "log_sample_documents"
          /\ UNCHANGED <<current_run, addError>>
       \/ /\ client
          /\ current_run
          /\ \E ended \in BOOLEAN :
                IF ended
                THEN /\ addPc' = "log_sample_documents"
                     /\ UNCHANGED <<current_run, addError>>
                ELSE /\ addPc' = "except"
                     /\ addError' = "TrackerError"
                     /\ UNCHANGED current_run
       \/ /\ client
          /\ ~current_run
          /\ \E started \in BOOLEAN : current_run' = started
          /\ addPc' = "log_sample_documents"
          /\ UNCHANGED addError
    /\ UNCHANGED <<client, addOutcome, streamOutcome, streamError, gatherExc,
                   chunk_queue, index>>
    /\ UNCHANGED <<otherVars, inputVars, producerVars, consumerVars>>

\* tracker.log_sample_documents(documents)
log_sample_documents ==
    /\ addPc = "log_sample_documents"
    /\ \E logged \in BOOLEAN :
          IF logged
          THEN addPc' = "add_documents_stream" /\ UNCHANGED addError
          ELSE addPc' = "except" /\ addError' = "TrackerError"
    /\ UNCHANGED <<addOutcome, streamOutcome, streamError, gatherExc,
                   chunk_queue, index>>
    /\ UNCHANGED <<otherVars, inputVars, trackerVars, producerVars, consumerVars>>

\* add_documents_stream up to its await: a new queue and the two tasks,
\* created and not yet run
add_documents_stream ==
    /\ addPc = "add_documents_stream"
    /\ addPc' = "gather"
    /\ chunk_queue' = <<>>
    /\ consPc' = "start"
    /\ prodPc' = "start"
    /\ UNCHANGED <<addOutcome, addError, streamOutcome, streamError,
                   gatherExc, index, docIdx, chunks, batch, executor,
                   dispatched>>
    /\ UNCHANGED <<otherVars, inputVars, trackerVars>>

\* await asyncio.gather(...) returns
gather_return ==
    /\ addPc = "gather"
    /\ ~GatherRaises
    /\ GatherDone
    /\ streamOutcome' = "returned"
    /\ addPc' = "log_metrics"
    /\ UNCHANGED <<addOutcome, addError, streamError, gatherExc,
                   chunk_queue, index>>
    /\ UNCHANGED <<otherVars, inputVars, trackerVars, producerVars, consumerVars>>

\* await asyncio.gather(...) raises; add_documents catches it
gather_raise ==
    /\ addPc = "gather"
    /\ GatherRaises
    /\ streamOutcome' = "raised"
    /\ streamError' = gatherExc
    /\ addError' = gatherExc
    /\ addPc' = "except"
    /\ UNCHANGED <<addOutcome, gatherExc, chunk_queue, index>>
    /\ UNCHANGED <<otherVars, inputVars, trackerVars, producerVars, consumerVars>>

\* tracker.log_document_processing_metrics(...)
log_document_processing_metrics ==
    /\ addPc = "log_metrics"
    /\ \E logged \in BOOLEAN :
          IF logged
          THEN addPc' = "finally" /\ UNCHANGED addError
          ELSE addPc' = "except" /\ addError' = "TrackerError"
    /\ UNCHANGED <<addOutcome, streamOutcome, streamError, gatherExc,
                   chunk_queue, index>>
    /\ UNCHANGED <<otherVars, inputVars, trackerVars, producerVars, consumerVars>>

\* except Exception as e: tracker.log_error(e, ...); raise
log_error ==
    /\ addPc = "except"
    /\ addPc' = "finally"
    /\ UNCHANGED <<addOutcome, addError, streamOutcome, streamError,
                   gatherExc, chunk_queue, index>>
    /\ UNCHANGED <<otherVars, inputVars, trackerVars, producerVars, consumerVars>>

\* finally: tracker.end_run(); then add_documents returns or raises
end_run ==
    /\ addPc = "finally"
    /\ addPc' = "done"
    /\ \/ /\ ~(client /\ current_run)
          /\ UNCHANGED <<current_run, addError>>
       \/ /\ client
          /\ current_run
          /\ \E ended \in BOOLEAN :
                IF ended
                THEN current_run' = FALSE /\ UNCHANGED addError
                ELSE addError' = "TrackerError" /\ UNCHANGED current_run
    /\ addOutcome' = IF addError' = "none" THEN "returned" ELSE "raised"
    /\ UNCHANGED <<client, streamOutcome, streamError, gatherExc,
                   chunk_queue, index>>
    /\ UNCHANGED <<otherVars, inputVars, producerVars, consumerVars>>

\* ------------------------------------------------- _chunk_producer
\* A task runs without interruption from one await that suspends to the
\* next: put suspends only on a full queue, get only on an empty one, and
\* atransform_documents and _add_batch_async always (they run in the
\* executor).

\* how many of the chunks cs the inner loop puts on queue q before a put
\* finds the queue full
PutCount(q, cs) ==
    CHOOSE n \in 0..Len(cs) :
        /\ \A i \in 0..(n - 1) : ~QueueFull(q \o SubSeq(cs, 1, i))
        /\ n = Len(cs) \/ QueueFull(q \o SubSeq(cs, 1, n))

\* variant: no sentinel is put after the last document
producer_loop_no_sentinel(q, d, cs) ==
    LET n == PutCount(q, cs)
        q1 == q \o SubSeq(cs, 1, n)
        cs1 == SubSeq(cs, n + 1, Len(cs))
    IN  IF cs1 # <<>>
        THEN [queue |-> q1, docIdx |-> d, chunks |-> cs1, pc |-> "put"]
        ELSE IF d < Len(documents)
        THEN [queue |-> q1, docIdx |-> d, chunks |-> cs1,
              pc |-> "transform"]
        ELSE [queue |-> q1, docIdx |-> d, chunks |-> cs1, pc |-> "done"]

\* the producer from the head of its inner loop, with queue q, d documents
\* taken and the chunks cs of the current document left, up to its next
\* suspension or its end: it suspends in put on a full queue, in
\* atransform_documents for the next document, or ends after the sentinel
producer_loop(q, d, cs) ==
    LET n == PutCount(q, cs)
        q1 == q \o SubSeq(cs, 1, n)
        cs1 == SubSeq(cs, n + 1, Len(cs))
    IN  IF cs1 # <<>>
        THEN [queue |-> q1, docIdx |-> d, chunks |-> cs1, pc |-> "put"]
        ELSE IF d < Len(documents)
        THEN [queue |-> q1, docIdx |-> d, chunks |-> cs1,
              pc |-> "transform"]
        ELSE IF QueueFull(q1)
        THEN [queue |-> q1, docIdx |-> d, chunks |-> cs1,
              pc |-> "put_sentinel"]
        ELSE [queue |-> Append(q1, None), docIdx |-> d, chunks |-> cs1,
              pc |-> "done"]

\* the producer task starts, or resumes from a put that was waiting for
\* room in the queue
chunk_producer_run ==
    /\ \/ prodPc = "start"
       \/ prodPc \in {"put", "put_sentinel"} /\ ~QueueFull(chunk_queue)
    /\ LET r == producer_loop(chunk_queue, docIdx, chunks)
       IN  /\ chunk_queue' = r.queue
           /\ docIdx' = r.docIdx
           /\ chunks' = r.chunks
           /\ prodPc' = r.pc
    /\ UNCHANGED <<gatherExc, index>>
    /\ UNCHANGED <<otherVars, inputVars, trackerVars, callVars, consumerVars>>

\* chunks = await self.text_splitter.atransform_documents([document])
\* returns or raises
chunk_producer_transform ==
    /\ prodPc = "transform"
    /\ \E split \in BOOLEAN :
          IF split
          THEN LET r == producer_loop(chunk_queue, docIdx + 1,
                                      ChunksOf(docIdx + 1))
               IN  /\ chunk_queue' = r.queue
                   /\ docIdx' = r.docIdx
                   /\ chunks' = r.chunks
                   /\ prodPc' = r.pc
                   /\ UNCHANGED gatherExc
          ELSE /\ prodPc' = "failed"
               /\ gatherExc' = FirstException("ChunkingError")
               /\ UNCHANGED <<docIdx, chunks, chunk_queue>>
    /\ UNCHANGED index
    /\ UNCHANGED <<otherVars, inputVars, trackerVars, callVars, consumerVars>>

\* ------------------------------------------------- _chunk_consumer

RECURSIVE consumer_loop(_, _)
\* the consumer from the head of its while loop, with queue q and batch b,
\* up to its next suspension or its end
consumer_loop(q, b) ==
    IF q = <<>>
    THEN [queue |-> q, batch |-> b, pc |-> "get"]
    ELSE IF QueueGet(q) = None
    THEN [queue |-> Tail(q), batch |-> b,
          pc |-> IF TrailingBatch(b) THEN "final_flush" ELSE "done"]
    ELSE IF BatchFull(BatchAppend(b, QueueGet(q)))
    THEN [queue |-> Tail(q), batch |-> BatchAppend(b, QueueGet(q)),
          pc |-> "flush"]
    ELSE consumer_loop(Tail(q), BatchAppend(b, QueueGet(q)))

\* the consumer continues with batch b: it ends, suspends in get, or hands
\* its batch to _add_batch_async (run_in_executor) and suspends
consumer_continue(b) ==
    LET r == consumer_loop(chunk_queue, b)
    IN  /\ chunk_queue' = r.queue
        /\ batch' = r.batch
        /\ consPc' = r.pc
        /\ IF r.pc \in {"flush", "final_flush"}
           THEN /\ executor' = "submitted"
                /\ dispatched' = Append(dispatched, r.batch)
           ELSE /\ executor' = "idle"
                /\ UNCHANGED dispatched

\* the consumer task starts, or resumes from a get that was waiting for an
\* item
chunk_consumer_run ==
    /\ \/ consPc = "start"
       \/ consPc = "get" /\ chunk_queue # <<>>
    /\ consumer_continue(batch)
    /\ UNCHANGED <<gatherExc, index>>
    /\ UNCHANGED <<otherVars, inputVars, trackerVars, callVars, producerVars>>

\* the executor thread runs self.vector_store.add_documents(batch)
add_batch_executor ==
    /\ executor = "submitted"
    /\ \E inserted \in BOOLEAN :
          IF inserted
          THEN index' = index \o batch /\ executor' = "ok"
          ELSE index' = index /\ executor' = "error"
    /\ UNCHANGED <<consPc, batch, dispatched, gatherExc, chunk_queue>>
    /\ UNCHANGED <<otherVars, inputVars, trackerVars, callVars, producerVars>>

\* variant: the flush is started but not awaited
chunk_consumer_flushed_early ==
    /\ executor \in {"submitted", "ok"}
    /\ consPc = "flush"
    /\ consumer_continue(BatchAfterFlush(batch))
    /\ UNCHANGED <<gatherExc, index>>
    /\ UNCHANGED <<otherVars, inputVars, trackerVars, callVars, producerVars>>

\* await self._add_batch_async(batch) returns in the loop: batch = [] and
\* the loop goes on
chunk_consumer_flushed ==
    /\ executor = "ok"
    /\ consPc = "flush"
    /\ consumer_continue(BatchAfterFlush(batch))
    /\ UNCHANGED <<gatherExc, index>>
    /\ UNCHANGED <<otherVars, inputVars, trackerVars, callVars, producerVars>>

\* await self._add_batch_async(batch) returns after the loop: the consumer
\* task ends
chunk_consumer_done ==
    /\ executor = "ok"
    /\ consPc = "final_flush"
    /\ executor' = "idle"
    /\ consPc' = "done"
    /\ UNCHANGED <<batch, dispatched, gatherExc, chunk_queue, index>>
    /\ UNCHANGED <<otherVars, inputVars, trackerVars, callVars, producerVars>>

\* variant: a failed flush removes what the call had inserted
chunk_consumer_raise_rollback ==
    /\ executor = "error"
    /\ executor' = "idle"
    /\ consPc' = "failed"
    /\ gatherExc' = FirstException("InsertError")
    /\ index' = indexBefore
    /\ UNCHANGED <<batch, dispatched, chunk_queue>>
    /\ UNCHANGED <<otherVars, inputVars, trackerVars, callVars, producerVars>>

\* await self._add_batch_async(batch) raises: the consumer task ends with
\* the exception
chunk_consumer_raise ==
    /\ executor = "error"
    /\ executor' = "idle"
    /\ consPc' = "failed"
    /\ gatherExc' = FirstException("InsertError")
    /\ UNCHANGED <<batch, dispatched, chunk_queue, index>>
    /\ UNCHANGED <<otherVars, inputVars, trackerVars, callVars, producerVars>>

\* ------------------------------------------------- specification

Next ==
    \/ start_run
    \/ log_sample_documents
    \/ add_documents_stream
    \/ gather_return
    \/ gather_raise
    \/ log_document_processing_metrics
    \/ log_error
    \/ end_run
    \/ chunk_producer_run
    \/ chunk_producer_transform
    \/ chunk_consumer_run
    \/ add_batch_executor
    \/ chunk_consumer_flushed
    \/ chunk_consumer_done
    \/ chunk_consumer_raise

Spec == Init /\ [][Next]_vars

TypeOK ==
    /\ documents \in DocumentLists
    /\ batch_size \in BatchSizes
    /\ client \in BOOLEAN
    /\ current_run \in BOOLEAN
    /\ addPc \in {"idle", "log_sample_documents", "add_documents_stream",
                  "gather", "log_metrics", "except", "finally", "done"}
    /\ addOutcome \in {"pending", "returned", "raised"}
    /\ addError \in {"none", "TrackerError", "InsertError", "ChunkingError"}
    /\ streamOutcome \in {"pending", "returned", "raised"}
    /\ streamError \in {"none", "InsertError", "ChunkingError"}
    /\ gatherExc \in {"none", "InsertError", "ChunkingError"}
    /\ prodPc \in {"unstarted", "start", "transform", "put", "put_sentinel",
                   "done", "failed"}
    /\ consPc \in {"unstarted", "start", "get", "flush", "final_flush",
                   "done", "failed"}
    /\ executor \in {"idle", "submitted", "ok", "error"}
    /\ docIdx \in 0..Len(documents)

\* ------------------------------------------------- properties

\* the batches of this call that the index has taken: all dispatched ones
\* but the one still in the executor or the one whose insert raised
InsertedBatches ==
    IF executor \in {"submitted", "error"} \/ consPc = "failed"
    THEN SubSeq(dispatched, 1, Len(dispatched) - 1)
    ELSE dispatched

\* C1: for a batch_size > 0, every batch handed to _add_batch_async holds
\* at least 1 and at most batch_size chunks.
C1_BatchWithinBatchSize ==
    batch_size > 0 =>
        \A i \in 1..Len(dispatched) :
            Len(dispatched[i]) >= 1 /\ Len(dispatched[i]) <= batch_size

C1_Witness ==
    /\ batch_size >= 2
    /\ Len(dispatched) >= 2
    /\ Len(dispatched[1]) = batch_size
    /\ Len(dispatched[Len(dispatched)]) < batch_size

\* C2: the queue never holds more than QueueMaxSize items, and while it is
\* full a step can only remove items from its head: a producer waiting in
\* put stays where it is until the consumer has removed an item.
C2_QueueBounded ==
    /\ [](Len(chunk_queue) <= QueueMaxSize)
    /\ [][Len(chunk_queue) = QueueMaxSize =>
            /\ IsSuffix(chunk_queue', chunk_queue)
            /\ prodPc \in {"put", "put_sentinel"} =>
                   UNCHANGED producerVars]_vars

C2_Witness ==
    /\ Len(chunk_queue) = QueueMaxSize
    /\ prodPc = "put"
    /\ chunks # <<>>

\* C3: when add_documents_stream has returned, the producer has finished
\* (every document chunked, the sentinel enqueued) and the consumer has
\* finished (the sentinel consumed, no flush in progress).
C3_ReturnsAfterBothTasks ==
    streamOutcome = "returned" =>
        /\ prodPc = "done"
        /\ docIdx = Len(documents)
        /\ chunks = <<>>
        /\ consPc = "done"
        /\ chunk_queue = <<>>
        /\ executor = "idle"

C3_Witness ==
    /\ streamOutcome = "returned"
    /\ Len(dispatched) >= 2

\* C4: after add_documents has returned, the index holds what it held
\* before the call followed by every chunk of the submitted documents,
\* each exactly once: the record count grew by the number of chunks.
C4_EveryChunkInsertedOnce ==
    addOutcome = "returned" =>
        /\ index = indexBefore \o AllChunks
        /\ Len(index) = Len(indexBefore) + Len(AllChunks)

C4_Witness ==
    /\ addOutcome = "returned"
    /\ indexBefore # <<>>
    /\ Len(documents) >= 2
    /\ Len(AllChunks) >= 3

\* C5: when add_documents_stream has returned, N chunks with batch size B
\* were flushed in exactly ceil(N/B) batches: each but the last holds B
\* chunks and the last holds N - B*(ceil(N/B)-1).
C5_FlushCount ==
    streamOutcome = "returned" =>
        LET N == Len(AllChunks)
            B == batch_size
            K == (N + B - 1) \div B
        IN  /\ Len(dispatched) = K
            /\ \A i \in 1..(K - 1) : Len(dispatched[i]) = B
            /\ K > 0 => Len(dispatched[K]) = N - B * (K - 1)

C5_Witness ==
    /\ streamOutcome = "returned"
    /\ Len(AllChunks) = 4
    /\ batch_size = 3
    /\ Len(dispatched) = 2
    /\ Len(dispatched[2]) = 1

\* C6: with an empty document list no batch is handed to the index, the
\* index keeps its content, add_documents_stream never raises, and the call
\* is never stuck before add_documents has ended; add_documents then has
\* returned unless a tracker call raised.
C6_EmptyAddIsNoOp ==
    documents = <<>> =>
        /\ dispatched = <<>>
        /\ index = indexBefore
        /\ streamOutcome # "raised"
        /\ gatherExc = "none"
        /\ addPc # "done" => ENABLED Next
        /\ addPc = "done" =>
               addOutcome = "returned" \/ addError = "TrackerError"

C6_Witness ==
    /\ documents = <<>>
    /\ streamOutcome = "returned"
    /\ consPc = "done"
    /\ addOutcome = "returned"

\* C7: the chunks handed to the index, batch after batch, are at any time
\* a prefix of the chunks of the submitted documents in document order and
\* chunk order, the index has taken them in that order, and when
\* add_documents_stream has returned they are all of them.
C7_InsertionOrder ==
    /\ IsPrefix(Flatten(dispatched), AllChunks)
    /\ index = indexBefore \o Flatten(InsertedBatches)
    /\ streamOutcome = "returned" => Flatten(dispatched) = AllChunks

C7_Witness ==
    /\ streamOutcome = "returned"
    /\ Len(documents) >= 2
    /\ Len(dispatched) >= 2
    /\ dispatched[1][1][1] # dispatched[Len(dispatched)][1][1]

C9_AbortsRemainingPipeline ==
    (streamOutcome = "raised" /\ streamError = "InsertError") =>
        TaskFinished(prodPc) /\ TaskFinished(consPc)

\* C10: once a flush has raised, the index holds what it held before the
\* call followed by the batches flushed before the failing one, in order.
C10_NoRollback ==
    consPc = "failed" =>
        index = indexBefore
                    \o Flatten(SubSeq(dispatched, 1, Len(dispatched) - 1))

C10_Witness ==
    /\ consPc = "failed"
    /\ addOutcome = "raised"
    /\ indexBefore # <<>>
    /\ Len(dispatched) >= 3
    /\ Len(index) > Len(indexBefore)

\* C17 (as claimed): when the chunking of one document has raised and the
\* call has come to rest without a failed flush, the chunks of every other
\* document of the list, before and after it, are in the index.
C17_SkipsInvalidDocument ==
    (prodPc = "failed" /\ consPc # "failed" /\ ~ENABLED Next) =>
        \A d \in (1..Len(documents)) \ {docIdx + 1} :
            \A i \in 1..documents[d] :
                \E j \in 1..Len(index) : index[j] = <<d, i>>

\* The event loop runs every task that is ready and the default executor
\* runs every job submitted to it: each step of add_documents_stream, of its
\* two tasks and of the executor job is taken if it stays enabled.
LiveSpec ==
    /\ Spec
    /\ WF_vars(chunk_producer_run)
    /\ WF_vars(chunk_producer_transform)
    /\ WF_vars(chunk_consumer_run)
    /\ WF_vars(add_batch_executor)
    /\ WF_vars(chunk_consumer_flushed)
    /\ WF_vars(chunk_consumer_done)
    /\ WF_vars(chunk_consumer_raise)
    /\ WF_vars(gather_return)
    /\ WF_vars(gather_raise)

\* C26: once add_documents_stream awaits its two tasks, it eventually
\* returns unless the chunking of a document or a flush raises; the pair
\* cannot deadlock, also when there are more chunks than the queue holds.
C26_AddEventuallyReturns ==
    (addPc = "gather") ~> (streamOutcome = "returned" \/ gatherExc # "none")

C26_Witness ==
    /\ streamOutcome = "returned"
    /\ gatherExc = "none"
    /\ Len(AllChunks) > QueueMaxSize
    /\ Len(dispatched) > 1

\* C27 (as claimed): when add_documents_stream has returned or raised,
\* both tasks of the call have ended, and a batch the consumer still holds
\* is one it has dispatched.
C27_NoTaskLeftPending ==
    streamOutcome # "pending" =>
        /\ TaskFinished(prodPc)
        /\ TaskFinished(consPc)
        /\ batch # <<>> =>
              dispatched # <<>> /\ dispatched[Len(dispatched)] = batch

\* C28: every dispatched batch but the last one has been inserted, and
\* while an insert is in the executor the consumer neither takes an item
\* from the queue nor dispatches a batch; the queue can only grow.
C28_OneFlushInFlight ==
    /\ [](IsPrefix(indexBefore
                   \o Flatten(SubSeq(dispatched, 1, Len(dispatched) - 1)),
                   index))
    /\ [][executor = "submitted" =>
              /\ batch' = batch
              /\ dispatched' = dispatched
              /\ consPc' = consPc
              /\ IsPrefix(chunk_queue, chunk_queue')]_vars

C28_Witness ==
    /\ executor = "submitted"
    /\ Len(dispatched) >= 2
    /\ prodPc = "done"
    /\ Len(chunk_queue) > 1

\* C29 (as claimed): add_documents raises only when its streaming step
\* raised; a tracker call that raises does not change the outcome.
C29_TrackerFailureHarmless ==
    addPc = "done" =>
        /\ addOutcome = "raised" => streamOutcome = "raised"
        /\ streamOutcome = "returned" => addOutcome = "returned"

\* ================================================= the store registry
\* get_vector_store and its two module globals.  A config dict is an object
\* of the process: callers pass a reference, and two dicts are field-equal
\* when their values are equal.

\* ---------------------------------------------------------------- bounds
MaxConfigs == 3
MaxGetCalls == 3

ConfigIds == 1..MaxConfigs

\* the config dicts a caller builds: VECTOR_STORE_CONFIG, or a copy with
\* another persist_directory
ConfigValues ==
    [persist_directory : {"chroma_db", "other_db"},
     batch_size : {ConfigBatchSize},
     top_k : {ConfigTopK}]

\* the single add_documents call of Spec is not made
CallIdle ==
    /\ addPc = "idle"
    /\ addOutcome = "pending"
    /\ addError = "none"
    /\ streamOutcome = "pending"
    /\ streamError = "none"
    /\ gatherExc = "none"
    /\ chunk_queue = <<>>
    /\ prodPc = "unstarted"
    /\ docIdx = 0
    /\ chunks = <<>>
    /\ consPc = "unstarted"
    /\ batch = <<>>
    /\ executor = "idle"
    /\ dispatched = <<>>

\* no add_documents call is made
AddIdle ==
    /\ documents = <<>>
    /\ batch_size = 1
    /\ CallIdle

\* a pipeline with an empty collection and no tracker client, on which no
\* call is made
PipelineIdle ==
    /\ AddIdle
    /\ SearchIdle
    /\ SplitterDefault
    /\ ConcurrentIdle
    /\ AdvisorIdle
    /\ index = <<>>
    /\ indexBefore = <<>>
    /\ client = FALSE
    /\ current_run = FALSE

\* a process start: the globals are None and nothing has been constructed
InitRegistry ==
    /\ config_objects \in [ConfigIds -> ConfigValues]
    /\ vector_store_instance = NoInstance
    /\ vector_store_config = NoInstance
    /\ instances = <<>>
    /\ get_calls = <<>>
    /\ config_reads = <<>>
    /\ PipelineIdle

\* variant: the cached config is compared by identity (is)
CacheHitSameObject(o) ==
    /\ vector_store_instance # NoInstance
    /\ vector_store_config = o

\* variant: no cache, every call constructs
CacheHitNever(o) == FALSE

\* _vector_store_instance is not None and _vector_store_config == config
CacheHit(o) ==
    /\ vector_store_instance # NoInstance
    /\ config_objects[vector_store_config] = config_objects[o]

\* get_vector_store(config), config being the dict object o: the cached
\* instance on a hit; otherwise AsyncVectorStore(config) is constructed and
\* the globals are assigned, or the constructor raises and they are not
get_vector_store ==
    /\ Len(get_calls) < MaxGetCalls
    /\ \E o \in ConfigIds :
          IF CacheHit(o)
          THEN /\ get_calls' = Append(get_calls,
                        [config |-> o, value |-> config_objects[o],
                         instance |-> vector_store_instance,
                         constructed |-> FALSE])
               /\ UNCHANGED <<vector_store_instance, vector_store_config,
                              instances>>
          ELSE \E ok \in BOOLEAN :
                  IF ok
                  THEN /\ instances' = Append(instances,
                                [config |-> o, value |-> config_objects[o]])
                       /\ vector_store_instance' = Len(instances) + 1
                       /\ vector_store_config' = o
                       /\ get_calls' = Append(get_calls,
                                [config |-> o, value |-> config_objects[o],
                                 instance |-> Len(instances) + 1,
                                 constructed |-> TRUE])
                  ELSE /\ get_calls' = Append(get_calls,
                                [config |-> o, value |-> config_objects[o],
                                 instance |-> NoInstance,
                                 constructed |-> FALSE])
                       /\ UNCHANGED <<vector_store_instance,
                                      vector_store_config, instances>>
    /\ UNCHANGED <<config_objects, config_reads, searchVars, splitterVars,
                   concurrentVars, advisorVars, vars>>

NextRegistry == get_vector_store

SpecRegistry == InitRegistry /\ [][NextRegistry]_allVars

\* C13: of two consecutive get_vector_store calls that both return, the
\* second returns the first one's instance without constructing when the
\* two configs are field-equal, and constructs an instance no earlier call
\* returned when they differ; the instance a call returns is the cached one.
C13_RegistryReuse ==
    /\ \A i \in 1..(Len(get_calls) - 1) :
          LET a == get_calls[i]
              b == get_calls[i + 1]
          IN  (a.instance # NoInstance /\ b.instance # NoInstance) =>
                 IF a.value = b.value
                 THEN b.instance = a.instance /\ ~b.constructed
                 ELSE /\ b.constructed
                      /\ \A j \in 1..i : get_calls[j].instance # b.instance
    /\ \A i \in 1..Len(get_calls) :
          (i = Len(get_calls) /\ get_calls[i].instance # NoInstance) =>
              /\ vector_store_instance = get_calls[i].instance
              /\ config_objects[vector_store_config] = get_calls[i].value

C13_Witness ==
    /\ Len(get_calls) >= 3
    /\ get_calls[1].config # get_calls[2].config
    /\ get_calls[1].value = get_calls[2].value
    /\ get_calls[1].instance # NoInstance
    /\ get_calls[2].instance = get_calls[1].instance
    /\ get_calls[3].value # get_calls[2].value
    /\ get_calls[3].constructed
    /\ vector_store_instance = get_calls[3].instance

\* C14 (as claimed): no two pipelines are ever constructed for the same
\* configuration value.
C14_OnePerConfig ==
    \A i, j \in 1..Len(instances) :
        i # j => instances[i].value # instances[j].value

\* C14 (amended): no two pipelines constructed one after the other have the
\* same configuration value, and no call constructs more than one; a
\* configuration requested again after a different one (A, B, A) is
\* constructed again.
C14_OnePerRunOfEqualConfigs ==
    /\ \A i \in 1..(Len(instances) - 1) :
          instances[i].value # instances[i + 1].value
    /\ Len(instances) <= Len(get_calls)

C14_Witness ==
    /\ Len(instances) = 3
    /\ instances[1].value = instances[3].value
    /\ instances[2].value # instances[1].value

\* ================================================= the caller's config dict
\* AsyncVectorStore.__init__ keeps the dict it is given (self.config =
\* config) and get_vector_store keeps it too (_vector_store_config =
\* config): the caller, the pipeline and the registry share one object.

\* ---------------------------------------------------------------- bounds
MaxReads == 2

\* the keys a later call reads, and the values a caller assigns to them
ReadKeys == {"batch_size", "top_k"}
AssignedValues ==
    [batch_size |-> {ConfigBatchSize, 1}, top_k |-> {ConfigTopK, 1}]

\* the pipelines constructed so far
Instances == 1..Len(instances)

\* config[key] = v by a caller, on a dict it has passed to
\* get_vector_store and a pipeline was constructed from
mutate_config ==
    /\ \E i \in Instances, key \in ReadKeys :
          \E v \in AssignedValues[key] \ {config_objects[instances[i].config][key]} :
              config_objects' =
                  [config_objects EXCEPT ![instances[i].config][key] = v]
    /\ UNCHANGED <<vector_store_instance, vector_store_config, instances,
                   get_calls, config_reads, searchVars, splitterVars,
                   concurrentVars, advisorVars, vars>>

\* self.config.get(key) of pipeline i
config_get(i, key) ==
    /\ Len(config_reads) < MaxReads
    /\ config_reads' = Append(config_reads,
            [instance |-> i, key |-> key,
             value |-> config_objects[instances[i].config][key]])
    /\ UNCHANGED <<config_objects, vector_store_instance,
                   vector_store_config, instances, get_calls, searchVars,
                   splitterVars, concurrentVars, advisorVars, vars>>

\* the consumer task of an add call starts:
\* batch_size = self.config.get("batch_size")
consumer_get_batch_size == \E i \in Instances : config_get(i, "batch_size")

\* search(query) with top_k None: top_k = self.config.get("top_k")
search_get_top_k == \E i \in Instances : config_get(i, "top_k")

NextMutableConfig ==
    \/ get_vector_store
    \/ mutate_config
    \/ consumer_get_batch_size
    \/ search_get_top_k

SpecMutableConfig == InitRegistry /\ [][NextMutableConfig]_allVars

\* C21 (as claimed): every batch_size and top_k a pipeline reads from its
\* config equals the value the config had when the pipeline was
\* constructed, and the config the registry compares against is the one the
\* cached pipeline was constructed with.
C21_ConfigImmutable ==
    /\ \A r \in 1..Len(config_reads) :
          config_reads[r].value =
              instances[config_reads[r].instance].value[config_reads[r].key]
    /\ vector_store_instance # NoInstance =>
          config_objects[vector_store_config] =
              instances[vector_store_instance].value

\* ================================================= search
\* AsyncVectorStore.search is a plain function: it runs from call to return
\* without yielding.  The Chroma query and the tracker are collaborators.
\* A record of the collection is the pair <<source, 1>>, its metadata being
\* its source; a result is a pair <<record, score>>.

\* ---------------------------------------------------------------- bounds
MaxRecords == 2
MaxTopK == 2
MaxScore == 1

\* the first n records of the collection
Records(n) == [i \in 1..n |-> <<i, 1>>]

Min(a, b) == IF a <= b THEN a ELSE b

\* where filter_dict f selects: every record, or those of one source
Matching(f) ==
    {i \in 1..Len(index) : f = NoFilter \/ index[i][1] = f}

\* what similarity_search_with_score(query, k, f) can return: up to k
\* different records that match f, each with a score
IndexResults(k, f) ==
    UNION {
        {r \in [1..n -> {<<index[i], sc>> : i \in Matching(f), sc \in 0..MaxScore}] :
            \A a, b \in 1..n : a # b => r[a][1] # r[b][1]}
        : n \in 0..Min(k, Cardinality(Matching(f)))}

InitSearch ==
    /\ index \in {Records(n) : n \in 0..MaxRecords}
    /\ indexBefore = index
    /\ client \in BOOLEAN
    /\ current_run \in (IF client THEN BOOLEAN ELSE {FALSE})
    /\ searchPc = "idle"
    /\ top_k \in {NoTopK} \cup 1..MaxTopK
    /\ filter_dict \in {NoFilter} \cup 1..MaxRecords
    /\ index_calls = <<>>
    /\ results = <<>>
    /\ searchOutcome = "pending"
    /\ searchResult = <<>>
    /\ searchError = "none"
    /\ AddIdle
    /\ RegistryIdle
    /\ SplitterDefault
    /\ ConcurrentIdle
    /\ AdvisorIdle

searchFrame == <<registryVars, splitterVars, concurrentVars, advisorVars,
                 inputVars, callVars, gatherExc, chunk_queue,
                 producerVars, consumerVars>>

\* if top_k is None: top_k = self.config.get("top_k")
EffectiveTopK(k) == IF k = NoTopK THEN ConfigTopK ELSE k

\* variant: results below a score threshold are dropped
ReturnAboveThreshold(r) == SelectSeq(r, LAMBDA x : x[2] > 0)

\* return results
ReturnResults(r) == r

\* tracker.start_run(run_name="search-query")
search_start_run ==
    /\ searchPc = "idle"
    /\ \/ /\ ~client
          /\ searchPc' = "query"
          /\ UNCHANGED <<current_run, searchError>>
       \/ /\ client
          /\ current_run
          /\ \E ended \in BOOLEAN :
                IF ended
                THEN /\ searchPc' = "query"
                     /\ UNCHANGED <<current_run, searchError>>
                ELSE /\ searchPc' = "except"
                     /\ searchError' = "TrackerError"
                     /\ UNCHANGED current_run
       \/ /\ client
          /\ ~current_run
          /\ \E started \in BOOLEAN : current_run' = started
          /\ searchPc' = "query"
          /\ UNCHANGED searchError
    /\ UNCHANGED <<client, index, top_k, filter_dict, index_calls, results,
                   searchOutcome, searchResult>>
    /\ UNCHANGED searchFrame

\* results = self.vector_store.similarity_search_with_score(query, top_k,
\* filter_dict): the query returns a list or raises
search_query ==
    /\ searchPc = "query"
    /\ LET k == EffectiveTopK(top_k)
       IN  \/ \E r \in IndexResults(k, filter_dict) :
                 /\ index_calls' = Append(index_calls,
                        [top_k |-> k, filter |-> filter_dict,
                         raised |-> FALSE, result |-> r])
                 /\ results' = r
                 /\ searchPc' = "log_search_metrics"
                 /\ UNCHANGED searchError
           \/ /\ index_calls' = Append(index_calls,
                        [top_k |-> k, filter |-> filter_dict,
                         raised |-> TRUE, result |-> <<>>])
              /\ searchPc' = "except"
              /\ searchError' = "IndexError"
              /\ UNCHANGED results
    /\ UNCHANGED <<client, current_run, index, top_k, filter_dict,
                   searchOutcome, searchResult>>
    /\ UNCHANGED searchFrame

\* tracker.log_search_metrics(...); return results
search_log_search_metrics ==
    /\ searchPc = "log_search_metrics"
    /\ \E logged \in BOOLEAN :
          IF logged
          THEN searchPc' = "finally" /\ UNCHANGED searchError
          ELSE searchPc' = "except" /\ searchError' = "TrackerError"
    /\ UNCHANGED <<client, current_run, index, top_k, filter_dict,
                   index_calls, results, searchOutcome, searchResult>>
    /\ UNCHANGED searchFrame

\* variant: except Exception: return []
search_log_error_return_empty ==
    /\ searchPc = "except"
    /\ searchPc' = "finally"
    /\ searchError' = "none"
    /\ results' = <<>>
    /\ UNCHANGED <<client, current_run, index, top_k, filter_dict,
                   index_calls, searchOutcome, searchResult>>
    /\ UNCHANGED searchFrame

\* except Exception as e: self.tracker.log_error(e, "search_query"); raise
search_log_error ==
    /\ searchPc = "except"
    /\ searchPc' = "finally"
    /\ UNCHANGED <<client, current_run, index, top_k, filter_dict,
                   index_calls, results, searchOutcome, searchResult,
                   searchError>>
    /\ UNCHANGED searchFrame

\* finally: self.tracker.end_run(); then search returns or raises
search_end_run ==
    /\ searchPc = "finally"
    /\ searchPc' = "done"
    /\ \/ /\ ~(client /\ current_run)
          /\ UNCHANGED <<current_run, searchError>>
       \/ /\ client
          /\ current_run
          /\ \E ended \in BOOLEAN :
                IF ended
                THEN current_run' = FALSE /\ UNCHANGED searchError
                ELSE searchError' = "TrackerError" /\ UNCHANGED current_run
    /\ IF searchError' = "none"
       THEN searchOutcome' = "returned" /\ searchResult' = ReturnResults(results)
       ELSE searchOutcome' = "raised" /\ UNCHANGED searchResult
    /\ UNCHANGED <<client, index, top_k, filter_dict, index_calls, results>>
    /\ UNCHANGED searchFrame

NextSearch ==
    \/ search_start_run
    \/ search_query
    \/ search_log_search_metrics
    \/ search_log_error
    \/ search_end_run

SpecSearch == InitSearch /\ [][NextSearch]_allVars

\* C19: when search returns, it has queried the index once, with the top_k
\* argument (the configured top_k when the argument is None) and the
\* filter_dict argument, and it returns the very sequence of (record, score)
\* pairs that query returned, low scores included.
C19_ReturnsIndexResultsUnchanged ==
    searchOutcome = "returned" =>
        /\ Len(index_calls) = 1
        /\ ~index_calls[1].raised
        /\ index_calls[1].top_k = (IF top_k = NoTopK THEN ConfigTopK ELSE top_k)
        /\ index_calls[1].filter = filter_dict
        /\ searchResult = index_calls[1].result

C19_Witness ==
    /\ searchOutcome = "returned"
    /\ top_k = NoTopK
    /\ Len(searchResult) >= 2
    /\ \E i \in 1..Len(searchResult) : searchResult[i][2] = 0

\* C20: once the index query has raised, search does not return: when it
\* ends it raises to its caller, and the collection is as it was.
C20_QueryFailureRaises ==
    (index_calls # <<>> /\ index_calls[Len(index_calls)].raised) =>
        /\ searchOutcome # "returned"
        /\ searchPc = "done" => searchOutcome = "raised" /\ searchError # "none"
        /\ index = indexBefore

C20_Witness ==
    /\ index_calls # <<>>
    /\ index_calls[1].raised
    /\ searchOutcome = "raised"
    /\ searchError = "IndexError"
    /\ index # <<>>

\* ================================================= construction
\* AsyncVectorStore(config) followed by one add_documents call, for
\* configurations the defaults of config.py do not cover.

\* ---------------------------------------------------------------- bounds
MaxChunkSize == 2

\* the batch_size values a config dict can carry: negative, zero, positive
ConfigBatchSizes == (-1)..MaxBatchSize

\* before AsyncVectorStore(config): a config dict, a document list to add
\* later, and no pipeline yet
InitConfig ==
    /\ documents \in SmallLists
    /\ batch_size \in ConfigBatchSizes
    /\ chunk_size \in 1..MaxChunkSize
    /\ chunk_overlap \in 0..(MaxChunkSize + 1)
    /\ index = <<>>
    /\ indexBefore = <<>>
    /\ client = FALSE
    /\ current_run = FALSE
    /\ addPc = "unconstructed"
    /\ addOutcome = "pending"
    /\ addError = "none"
    /\ streamOutcome = "pending"
    /\ streamError = "none"
    /\ gatherExc = "none"
    /\ chunk_queue = <<>>
    /\ prodPc = "unstarted"
    /\ docIdx = 0
    /\ chunks = <<>>
    /\ consPc = "unstarted"
    /\ batch = <<>>
    /\ executor = "idle"
    /\ dispatched = <<>>
    /\ RegistryIdle
    /\ SearchIdle
    /\ ConcurrentIdle
    /\ AdvisorIdle

\* RecursiveCharacterTextSplitter(chunk_size=..., chunk_overlap=...) raises
\* for a chunk_overlap larger than chunk_size; __init__ itself checks nothing
ConfigRejected == chunk_overlap > chunk_size

\* AsyncVectorStore.__init__: the embedder, the Chroma collection (empty or
\* holding earlier records), the splitter and the tracker are built and
\* _log_configs runs (it may leave a run open); any of the constructors may
\* raise, and then no pipeline exists
init_vector_store ==
    /\ addPc = "unconstructed"
    /\ \/ /\ addPc' = "config_error"
          /\ UNCHANGED <<index, indexBefore, client, current_run>>
       \/ /\ ~ConfigRejected
          /\ addPc' = "idle"
          /\ index' \in {<<>>, <<Old>>}
          /\ indexBefore' = index'
          /\ client' \in BOOLEAN
          /\ current_run' \in (IF client' THEN BOOLEAN ELSE {FALSE})
    /\ UNCHANGED <<documents, batch_size, addOutcome, addError, streamOutcome,
                   streamError, gatherExc, chunk_queue>>
    /\ UNCHANGED <<otherVars, producerVars, consumerVars>>

NextConfig ==
    \/ init_vector_store
    \/ Next

SpecConfig == InitConfig /\ [][NextConfig]_allVars

\* C15 (as claimed): for a configuration whose chunk_overlap is at least its
\* chunk_size no pipeline is constructed, and no chunk is produced, enqueued
\* or dispatched.
C15_OverlapRejected ==
    chunk_overlap >= chunk_size =>
        /\ addPc \in {"unconstructed", "config_error"}
        /\ prodPc = "unstarted"
        /\ consPc = "unstarted"
        /\ chunk_queue = <<>>
        /\ dispatched = <<>>

\* C16 (as claimed): for a configuration whose batch_size is zero or
\* negative no pipeline is constructed, so no add call dispatches a batch
\* with it.
C16_BatchSizeRejected ==
    batch_size <= 0 =>
        /\ addPc \in {"unconstructed", "config_error"}
        /\ dispatched = <<>>

\* ================================================= concurrent and cancelled calls
\* Several add_documents_stream calls on one AsyncVectorStore, run by one
\* event loop: each call has its own queue, producer task, consumer task and
\* executor job; the collection and batch_size are shared.  A chunk carries
\* the call it belongs to: <<call, document position, chunk position>>.  The
\* caller of call 1 may cancel it while it awaits gather.

Calls == {1, 2}

CancellableCalls == {1}

\* the document lists and batch sizes the calls are made with
CallLists == {<<1>>, <<2>>, <<1, 2>>, <<2, 1>>}

CallBatchSizes == {1, 2}

NewCall ==
    [state |-> "unstarted", gatherExc |-> "none", prodPc |-> "unstarted",
     docIdx |-> 0, chunks |-> <<>>, consPc |-> "unstarted", batch |-> <<>>,
     executor |-> "idle", dispatched |-> <<>>]

InitCalls ==
    /\ documents \in CallLists
    /\ batch_size \in CallBatchSizes
    /\ index = <<>>
    /\ indexBefore = <<>>
    /\ client = FALSE
    /\ current_run = FALSE
    /\ CallIdle
    /\ calls = [c \in Calls |-> NewCall]
    /\ queues = [c \in Calls |-> <<>>]
    /\ RegistryIdle
    /\ SearchIdle
    /\ SplitterDefault
    /\ AdvisorIdle

callsFrame == <<registryVars, searchVars, splitterVars, advisorVars,
                inputVars,
                trackerVars, callVars, gatherExc, chunk_queue, producerVars,
                consumerVars>>

\* the chunks the splitter returns for document d of call c
CallChunksOf(c, d) == [i \in 1..documents[d] |-> <<c, d, i>>]

\* variant: one queue kept on the instance and used by every call
QueueOfInstance(c) == 1

\* chunk_queue = asyncio.Queue(maxsize=100): a local of each call
QueueOf(c) == c

\* Task.done(): returned, raised or cancelled
CallTaskFinished(pc) == pc \in {"done", "failed", "cancelled"}

\* Task.cancel() on a child of gather: a task that has not finished ends
\* with CancelledError at its next step
CancelTask(pc) == IF CallTaskFinished(pc) THEN pc ELSE "cancelled"

\* add_documents_stream up to its await: a new queue and the two tasks
call_add_documents_stream(c) ==
    /\ calls[c].state = "unstarted"
    /\ \A b \in Calls : b < c => calls[b].state # "unstarted"
    /\ calls' = [calls EXCEPT ![c].state = "gather",
                              ![c].prodPc = "start",
                              ![c].consPc = "start"]
    /\ queues' = [queues EXCEPT ![QueueOf(c)] = <<>>]
    /\ UNCHANGED index
    /\ UNCHANGED callsFrame

\* the producer task of call c starts, or resumes from a put
call_chunk_producer_run(c) ==
    /\ \/ calls[c].prodPc = "start"
       \/ /\ calls[c].prodPc \in {"put", "put_sentinel"}
          /\ ~QueueFull(queues[QueueOf(c)])
    /\ LET r == producer_loop(queues[QueueOf(c)], calls[c].docIdx,
                              calls[c].chunks)
       IN  /\ queues' = [queues EXCEPT ![QueueOf(c)] = r.queue]
           /\ calls' = [calls EXCEPT ![c].docIdx = r.docIdx,
                                     ![c].chunks = r.chunks,
                                     ![c].prodPc = r.pc]
    /\ UNCHANGED index
    /\ UNCHANGED callsFrame

\* atransform_documents of call c's next document returns or raises
call_chunk_producer_transform(c) ==
    /\ calls[c].prodPc = "transform"
    /\ \E split \in BOOLEAN :
          IF split
          THEN LET r == producer_loop(queues[QueueOf(c)], calls[c].docIdx + 1,
                                      CallChunksOf(c, calls[c].docIdx + 1))
               IN  /\ queues' = [queues EXCEPT ![QueueOf(c)] = r.queue]
                   /\ calls' = [calls EXCEPT ![c].docIdx = r.docIdx,
                                             ![c].chunks = r.chunks,
                                             ![c].prodPc = r.pc]
          ELSE /\ calls' = [calls EXCEPT
                    ![c].prodPc = "failed",
                    ![c].gatherExc = IF @ = "none" THEN "ChunkingError" ELSE @]
               /\ UNCHANGED queues
    /\ UNCHANGED index
    /\ UNCHANGED callsFrame

\* the consumer of call c continues with batch b
call_consumer_continue(c, b) ==
    LET r == consumer_loop(queues[QueueOf(c)], b)
    IN  /\ queues' = [queues EXCEPT ![QueueOf(c)] = r.queue]
        /\ calls' = [calls EXCEPT
              ![c].batch = r.batch,
              ![c].consPc = r.pc,
              ![c].executor = IF r.pc \in {"flush", "final_flush"}
                              THEN "submitted" ELSE "idle",
              ![c].dispatched = IF r.pc \in {"flush", "final_flush"}
                                THEN Append(@, r.batch) ELSE @]

\* the consumer task of call c starts, or resumes from a get
call_chunk_consumer_run(c) ==
    /\ \/ calls[c].consPc = "start"
       \/ calls[c].consPc = "get" /\ queues[QueueOf(c)] # <<>>
    /\ call_consumer_continue(c, calls[c].batch)
    /\ UNCHANGED index
    /\ UNCHANGED callsFrame

\* an executor thread runs self.vector_store.add_documents(batch) for call
\* c, also when the consumer that submitted it has been cancelled since
call_add_batch_executor(c) ==
    /\ calls[c].executor \in {"submitted", "detached"}
    /\ \E inserted \in BOOLEAN :
          /\ index' = IF inserted THEN index \o calls[c].batch ELSE index
          /\ calls' = [calls EXCEPT ![c].executor =
                          IF @ = "detached" THEN "idle"
                          ELSE IF inserted THEN "ok" ELSE "error"]
    /\ UNCHANGED queues
    /\ UNCHANGED callsFrame

\* await self._add_batch_async(batch) returns in the loop of call c
call_chunk_consumer_flushed(c) ==
    /\ calls[c].executor = "ok"
    /\ calls[c].consPc = "flush"
    /\ call_consumer_continue(c, BatchAfterFlush(calls[c].batch))
    /\ UNCHANGED index
    /\ UNCHANGED callsFrame

\* await self._add_batch_async(batch) returns after the loop of call c
call_chunk_consumer_done(c) ==
    /\ calls[c].executor = "ok"
    /\ calls[c].consPc = "final_flush"
    /\ calls' = [calls EXCEPT ![c].executor = "idle", ![c].consPc = "done"]
    /\ UNCHANGED <<queues, index>>
    /\ UNCHANGED callsFrame

\* await self._add_batch_async(batch) raises in call c
call_chunk_consumer_raise(c) ==
    /\ calls[c].executor = "error"
    /\ calls[c].consPc \in {"flush", "final_flush"}
    /\ calls' = [calls EXCEPT
          ![c].executor = "idle",
          ![c].consPc = "failed",
          ![c].gatherExc = IF @ = "none" THEN "InsertError" ELSE @]
    /\ UNCHANGED <<queues, index>>
    /\ UNCHANGED callsFrame

\* await asyncio.gather(...) of call c returns
call_gather_return(c) ==
    /\ calls[c].state = "gather"
    /\ calls[c].gatherExc = "none"
    /\ calls[c].prodPc = "done"
    /\ calls[c].consPc = "done"
    /\ calls' = [calls EXCEPT ![c].state = "returned"]
    /\ UNCHANGED <<queues, index>>
    /\ UNCHANGED callsFrame

\* await asyncio.gather(...) of call c raises
call_gather_raise(c) ==
    /\ calls[c].state = "gather"
    /\ calls[c].gatherExc # "none"
    /\ calls' = [calls EXCEPT ![c].state = "raised"]
    /\ UNCHANGED <<queues, index>>
    /\ UNCHANGED callsFrame

\* the gather future of call c has a result or an exception already
GatherFutureDone(c) ==
    \/ calls[c].gatherExc # "none"
    \/ calls[c].prodPc = "done" /\ calls[c].consPc = "done"

\* the task awaiting call c is cancelled while the call awaits gather.  A
\* pending gather future cancels its children; an executor job they wait
\* for is cancelled if it has not started and runs on otherwise.  A gather
\* future that is done already ignores the cancellation, and the awaiting
\* task gets CancelledError at its next step all the same.
call_cancel(c) ==
    /\ c \in CancellableCalls
    /\ calls[c].state = "gather"
    /\ IF GatherFutureDone(c)
       THEN calls' = [calls EXCEPT ![c].state = "cancelled"]
       ELSE \E running \in BOOLEAN :
               calls' = [calls EXCEPT
                  ![c].state = "cancelled",
                  ![c].prodPc = CancelTask(@),
                  ![c].consPc = CancelTask(@),
                  ![c].executor = IF @ = "submitted" /\ running
                                  THEN "detached" ELSE "idle"]
    /\ UNCHANGED <<queues, index>>
    /\ UNCHANGED callsFrame

NextCalls ==
    \/ \E c \in Calls : call_add_documents_stream(c)
    \/ \E c \in Calls : call_chunk_producer_run(c)
    \/ \E c \in Calls : call_chunk_producer_transform(c)
    \/ \E c \in Calls : call_chunk_consumer_run(c)
    \/ \E c \in Calls : call_add_batch_executor(c)
    \/ \E c \in Calls : call_chunk_consumer_flushed(c)
    \/ \E c \in Calls : call_chunk_consumer_done(c)
    \/ \E c \in Calls : call_chunk_consumer_raise(c)
    \/ \E c \in Calls : call_gather_return(c)
    \/ \E c \in Calls : call_gather_raise(c)
    \/ \E c \in Calls : call_cancel(c)

SpecCalls == InitCalls /\ [][NextCalls]_allVars

\* the chunks of call c, in document then chunk order
CallChunks(c) == [i \in 1..Len(AllChunks) |-> <<c>> \o AllChunks[i]]

\* C11 (as claimed): once a call has been cancelled, its producer task and
\* its consumer task have both ended; neither runs or stays suspended.
C11_CancelStopsBothTasks ==
    \A c \in Calls :
        calls[c].state = "cancelled" =>
            /\ CallTaskFinished(calls[c].prodPc)
            /\ CallTaskFinished(calls[c].consPc)

\* C12: under every interleaving of the calls, the batches a call dispatches
\* hold between 1 and batch_size chunks and, one after the other, are a
\* prefix of that call's own chunks in their order; a call that returns has
\* dispatched all of its chunks, and each of them is in the collection
\* exactly once.
C12_ConcurrentCallsKeepApart ==
    \A c \in Calls :
        /\ \A i \in 1..Len(calls[c].dispatched) :
              /\ Len(calls[c].dispatched[i]) >= 1
              /\ Len(calls[c].dispatched[i]) <= batch_size
        /\ IsPrefix(Flatten(calls[c].dispatched), CallChunks(c))
        /\ calls[c].state = "returned" =>
              /\ Flatten(calls[c].dispatched) = CallChunks(c)
              /\ \A k \in 1..Len(CallChunks(c)) :
                    Cardinality({j \in 1..Len(index) :
                                    index[j] = CallChunks(c)[k]}) = 1

C12_Witness ==
    /\ calls[1].state = "returned"
    /\ calls[2].state = "returned"
    /\ Len(calls[1].dispatched) >= 2
    /\ Len(calls[2].dispatched) >= 2
    /\ Len(index) >= 3
    /\ index[1][1] = 1
    /\ index[2][1] = 2
    /\ index[Len(index)][1] = 1

\* ================================================= the advisor
\* generate_advice and FinancialAdvisor: one request.  A passage is a
\* number, a search result the pair <<passage, score>>, a score a number of
\* tenths.  The holdings lookup, the index and the language model are
\* collaborators: they return or raise.

\* ---------------------------------------------------------------- bounds
MaxHoldings == 2

\* RETRIEVER_K = 2, also the top_k=2 of the generic queries
RETRIEVER_K == 2

\* RELEVANT_DOCUMENTS_TOP_K = 5
RELEVANT_DOCUMENTS_TOP_K == 5

\* the 0.7 of `if score > 0.7`, in tenths
ScoreThreshold == 7

\* the scores of the results of one search, in the order the index returns
\* them: no result, one result at the threshold, one above before one
\* below, two above
ScoreLists ==
    {<<>>,
     <<ScoreThreshold>>,
     <<ScoreThreshold + 1, ScoreThreshold - 1>>,
     <<ScoreThreshold + 1, ScoreThreshold + 1>>}

\* what search(query, top_k=2) may return for the q-th query of a loop: up
\* to two results, about passages of its own or about the passages the first
\* query of the loop is answered with
ResultLists(q) ==
    {[i \in 1..Len(sl) |-> <<RETRIEVER_K * (p - 1) + i, sl[i]>>] :
        sl \in ScoreLists, p \in {1, q}}

\* variant: score >= 0.7
PassesAtThreshold(r) == r[2] >= ScoreThreshold

\* if score > 0.7
PassesThreshold(r) == r[2] > ScoreThreshold

\* for doc, score in search_results: if score > 0.7:
\* relevant_documents.append(doc.page_content)
Passing(rs) ==
    LET sel == SelectSeq(rs, PassesThreshold)
    IN  [i \in 1..Len(sel) |-> sel[i][1]]

\* the passages appended over the searches rss, in order
Hits(rss) == Flatten([q \in 1..Len(rss) |-> Passing(rss[q])])

RECURSIVE Unique(_)
\* list(dict.fromkeys(s)): the first occurrence of every element, in order
Unique(s) ==
    IF s = <<>> THEN <<>>
    ELSE LET init == Unique(SubSeq(s, 1, Len(s) - 1))
             last == s[Len(s)]
         IN  IF \E i \in 1..Len(init) : init[i] = last
             THEN init
             ELSE Append(init, last)

\* what _get_general_market_context returns when its four searches return
\* rss: unique_docs[:RELEVANT_DOCUMENTS_TOP_K]
GeneralContext(rss) ==
    LET unique_docs == Unique(Hits(rss))
    IN  SubSeq(unique_docs, 1, Min(Len(unique_docs), RELEVANT_DOCUMENTS_TOP_K))

\* variant: the generic queries are never used
NeedsFallbackNever(docs) == FALSE

\* if not relevant_documents
NeedsFallback(docs) == docs = <<>>

InitAdvisor ==
    /\ RegistryIdle
    /\ PipelineIdle

advisorFrame == <<registryVars, searchVars, splitterVars, concurrentVars,
                  vars>>

\* variant: the failure of get_advisor() reaches the caller
generate_advice_start_reraise ==
    /\ advPc = "idle"
    /\ \E ok \in BOOLEAN :
          IF ok
          THEN /\ \E t \in BOOLEAN : tracker_set' = t
               /\ advPc' = "context"
               /\ UNCHANGED <<gen_error, advice, advOutcome>>
          ELSE /\ gen_error' = "AdvisorError"
               /\ advOutcome' = "raised"
               /\ advPc' = "done"
               /\ UNCHANGED <<tracker_set, advice>>
    /\ UNCHANGED <<holdings, stock, relevant_documents, stock_results,
                   general_results, ctx_error, context>>
    /\ UNCHANGED advisorFrame

\* generate_advice up to its first await: get_advisor() constructs the
\* FinancialAdvisor, whose __init__ sets self.tracker unless AdvisorTracker()
\* raises; when get_advisor() itself raises, the except clause returns
\* AdviceResponse(advice=ERROR_ADVICE)
generate_advice_start ==
    /\ advPc = "idle"
    /\ \E ok \in BOOLEAN :
          IF ok
          THEN /\ \E t \in BOOLEAN : tracker_set' = t
               /\ advPc' = "context"
               /\ UNCHANGED <<gen_error, advice, advOutcome>>
          ELSE /\ gen_error' = "AdvisorError"
               /\ advice' = "ERROR_ADVICE"
               /\ advOutcome' = "returned"
               /\ advPc' = "done"
               /\ UNCHANGED tracker_set
    /\ UNCHANGED <<holdings, stock, relevant_documents, stock_results,
                   general_results, ctx_error, context>>
    /\ UNCHANGED advisorFrame

\* relevant_documents = await self._get_general_market_context() followed
\* by the return of get_user_portfolio_context with holdings h: the four
\* generic searches (one that raises is skipped and adds no result), the
\* threshold, the removal of duplicates and the cut
general_market_context(h) ==
    \E g1 \in ResultLists(1), g2 \in ResultLists(2),
       g3 \in ResultLists(3), g4 \in ResultLists(4) :
        LET rss == <<g1, g2, g3, g4>>
        IN  /\ general_results' = rss
            /\ relevant_documents' = GeneralContext(rss)
            /\ context' = [holdings |-> h, documents |-> GeneralContext(rss)]

\* the except clause of get_user_portfolio_context for the exception e:
\* the tracker call is guarded; return [], general context
portfolio_context_except(e) ==
    /\ ctx_error' = e
    /\ general_market_context(0)
    /\ advPc' = "generate"

\* get_user_portfolio_context up to the loop over the stock symbols: the
\* test of self.tracker (AttributeError when it was never set), the
\* holdings lookup, and the return with the general context when there are
\* no holdings
get_user_holdings ==
    /\ advPc = "context"
    /\ IF ~tracker_set
       THEN /\ portfolio_context_except("AttributeError")
            /\ UNCHANGED holdings
       ELSE \E ok \in BOOLEAN, h \in 0..MaxHoldings :
               IF ~ok
               THEN /\ portfolio_context_except("HoldingsError")
                    /\ UNCHANGED holdings
               ELSE IF h = 0
               THEN /\ holdings' = 0
                    /\ general_market_context(0)
                    /\ advPc' = "generate"
                    /\ UNCHANGED ctx_error
               ELSE /\ holdings' = h
                    /\ advPc' = "stocks"
                    /\ UNCHANGED <<relevant_documents, general_results,
                                   ctx_error, context>>
    /\ UNCHANGED <<tracker_set, stock, stock_results, gen_error, advice,
                   advOutcome>>
    /\ UNCHANGED advisorFrame

\* one turn of `for stock in stock_symbols`: the search raises (to the
\* except clause) or its results above the threshold are appended; after
\* the last stock the general context replaces an empty list, and
\* get_user_portfolio_context returns
stock_search ==
    /\ advPc = "stocks"
    /\ \E ok \in BOOLEAN, r \in ResultLists(stock + 1) :
          IF ~ok
          THEN /\ portfolio_context_except("SearchError")
               /\ UNCHANGED <<stock, stock_results>>
          ELSE LET docs == relevant_documents \o Passing(r)
               IN  /\ stock' = stock + 1
                   /\ stock_results' = Append(stock_results, r)
                   /\ UNCHANGED ctx_error
                   /\ IF stock + 1 < holdings
                      THEN /\ relevant_documents' = docs
                           /\ UNCHANGED <<advPc, general_results, context>>
                      ELSE IF NeedsFallback(docs)
                      THEN /\ general_market_context(holdings)
                           /\ advPc' = "generate"
                      ELSE /\ relevant_documents' = docs
                           /\ context' = [holdings |-> holdings,
                                          documents |-> docs]
                           /\ advPc' = "generate"
                           /\ UNCHANGED general_results
    /\ UNCHANGED <<tracker_set, holdings, gen_error, advice, advOutcome>>
    /\ UNCHANGED advisorFrame

\* generate_financial_advice and the return of generate_advice: the model
\* call raises, or the test of self.tracker after it does, and the except
\* clause returns error_response; otherwise the model's text is returned
generate_financial_advice ==
    /\ advPc = "generate"
    /\ \E ok \in BOOLEAN :
          IF ~ok
          THEN gen_error' = "LLMError" /\ advice' = "error_response"
          ELSE IF ~tracker_set
          THEN gen_error' = "AttributeError" /\ advice' = "error_response"
          ELSE advice' = "llm" /\ UNCHANGED gen_error
    /\ advOutcome' = "returned"
    /\ advPc' = "done"
    /\ UNCHANGED <<tracker_set, holdings, stock, relevant_documents,
                   stock_results, general_results, ctx_error, context>>
    /\ UNCHANGED advisorFrame

NextAdvisor ==
    \/ generate_advice_start
    \/ get_user_holdings
    \/ stock_search
    \/ generate_financial_advice

SpecAdvisor == InitAdvisor /\ [][NextAdvisor]_allVars

\* ---------------------------------------------------------------- C23
RECURSIVE IsSubSeq(_, _)
IsSubSeq(s, t) ==
    IF s = <<>> THEN TRUE
    ELSE IF t = <<>> THEN FALSE
    ELSE IF s[1] = t[1] THEN IsSubSeq(Tail(s), Tail(t))
    ELSE IsSubSeq(s, Tail(t))

Range(s) == {s[i] : i \in 1..Len(s)}

\* the searches whose results make up the returned documents
ContextResults ==
    IF general_results # <<>> THEN general_results ELSE stock_results

C24_FallbackExactlyWhenNeeded ==
    IF context = NoContext
    THEN general_results = <<>>
    ELSE LET perStock == Hits(stock_results)
             failed == ctx_error # "none"
         IN  IF failed \/ holdings = 0 \/ perStock = <<>>
             THEN /\ general_results # <<>>
                  /\ context.documents = GeneralContext(general_results)
                  /\ context.holdings = IF failed THEN 0 ELSE holdings
             ELSE /\ general_results = <<>>
                  /\ Len(stock_results) = holdings
                  /\ context = [holdings |-> holdings, documents |-> perStock]

C24_Witness ==
    /\ context # NoContext
    /\ holdings = MaxHoldings
    /\ Len(stock_results) = holdings
    /\ Hits(stock_results) = <<>>
    /\ Flatten(stock_results) # <<>>
    /\ ctx_error = "none"
    /\ context.holdings = holdings
    /\ context.documents # <<>>

\* ---------------------------------------------------------------- C30
\* C30: generate_advice never raises; when the request is over it has
\* returned an AdviceResponse, and the advice is one of the two fixed
\* fallback texts whenever get_advisor, the model call or the tracker test
\* after it raised; failures of the holdings lookup and of the searches
\* leave the advice to the model.
C30_NeverRaises ==
    /\ advOutcome # "raised"
    /\ advPc = "done" =>
          /\ advOutcome = "returned"
          /\ advice \in {"llm", "error_response", "ERROR_ADVICE"}
          /\ gen_error # "none" =>
                advice \in {"error_response", "ERROR_ADVICE"}
          /\ (gen_error = "none" /\ ctx_error # "none") => advice = "llm"

C30_Witness ==
    /\ advPc = "done"
    /\ advOutcome = "returned"
    /\ ctx_error = "SearchError"
    /\ gen_error = "LLMError"
    /\ advice = "error_response"

====
